---- MODULE Spec2Model ----
(***************************************************************************)
(* Website analyzer backend: the three server programs of the repository   *)
(* (src/index.js, src/unnamed/part_000, src/unnamed/part_001).  Each is an *)
(* express application that drives a headless browser through a fixed      *)
(* sequence of awaited calls; every awaited call is one step of the model  *)
(* and may resolve or reject.  A behaviour follows one browser-driving     *)
(* request (POST /analyze or POST /analyze/bulk) from its arrival to its   *)
(* end, on a disk that may hold the files of earlier requests, while the   *)
(* synchronous POST /submit handler runs between any two of its steps.     *)
(* The pure extractors (classification, colors, font classes) are computed *)
(* on concrete page content under specifications of their own, and so are  *)
(* concurrent POST /submit requests, whose writes are taken one by one.    *)
(***************************************************************************)
EXTENDS Integers, Sequences, FiniteSets, TLC

VARIABLES
    impl,        \* which of the three server programs is running
    route,       \* the browser-driving handler in flight: "none", "analyze", "bulk"
    body,        \* req.body of that request
    pc,          \* position of that handler
    ip,          \* index of the awaited call the handler is suspended on
    urlIx,       \* bulk: 1-based position of the for..of loop in urls
    id,          \* crypto.randomUUID() of the analysis in progress (0: none)
    uuid,        \* number of identifiers handed out so far
    browser,     \* "none" (undefined), "open", "closed"
    pages,       \* number of pages open in the browser
    trace,       \* awaited calls of the analysis in progress: [fn, view, ok]
    warnings,    \* the warnings array of part_000
    data,        \* what each extractor returned in the analysis in progress
    results,     \* bulk: the results array
    response,    \* the response sent for the request in flight
    dir,         \* whether the screenshots directory exists
    files,       \* screenshot files on disk
    log,         \* the text of submissions.json, piece by piece
    lastSubmit,  \* the last POST /submit handled: its body and its response
    doc,         \* the rendered document the classifiers read: title, innerText
    category,    \* what each classifier returned for doc
    styles,      \* computed [color, backgroundColor] of the document's elements
    colors,      \* what each color extractor returned for styles
    fonts,       \* the font names extractFonts returned
    fontTypes,   \* what classifyFontTypes returned for fonts
    pending,     \* POST /submit requests received and not yet handled
    handled      \* POST /submit requests whose handler has started, in that order

hvars == <<impl, route, body, pc, ip, urlIx, id, uuid, browser, pages, trace,
           warnings, data, results, response, dir, files, log, lastSubmit>>

\* The page content read by the pure extractors.
pure == <<doc, category, styles, colors, fonts, fontTypes>>

\* The POST /submit requests of the concurrent clients.
queue == <<pending, handled>>

vars == <<hvars, pure, queue>>

(* ------------------------------ bounds -------------------------------- *)

MaxUrls == 2
MaxSubmits == 1
MaxSentences == 4
MaxElements == 2

(* ------------------------------ inputs -------------------------------- *)

Undefined == "undefined"

AbsoluteUrls == {"https://a.example", "https://b.example/x"}

UrlInputs == AbsoluteUrls \cup {"not a url", "", Undefined}

\* A validator that only checks that a value was given.
AnyString(value) == value # Undefined

\* new URL(value) succeeds exactly on the absolute URLs among the inputs.
isValidUrl(value) == value \in AbsoluteUrls

Truthy(value) == value \notin {Undefined, ""}

RECURSIVE SeqsUpTo(_, _)
SeqsUpTo(S, n) ==
    IF n = 0 THEN {<<>>}
    ELSE LET shorter == SeqsUpTo(S, n - 1)
         IN  shorter \cup {Append(s, x) : s \in {t \in shorter : Len(t) = n - 1}, x \in S}

UrlLists == SeqsUpTo(AbsoluteUrls \cup {"not a url"}, MaxUrls)

\* A JSON value in the urls field: an array of strings, a string, or absent.
Array(items) == [type |-> "array", items |-> items]

NotArrays == {[type |-> "undefined", items |-> <<>>],
              [type |-> "string", items |-> <<"https://a.example">>]}

isArray(v) == v.type = "array"

BulkBodies == {[urls |-> u] : u \in {Array(l) : l \in UrlLists} \cup NotArrays}

AnalyzeBodies == {[url |-> u] : u \in UrlInputs}

SubmitBodies ==
    {[url |-> u, websiteName |-> w] : u \in {Undefined, "https://a.example"},
                                      w \in {Undefined, "", "A"}}

Impls == {"index", "part_000", "part_001"}

HasBulk(i) == i = "index"

HasSubmit(i) == i \in {"index", "part_001"}

(* ----------------------------- programs ------------------------------- *)
(* The awaited calls of one analysis, in source order.  onThrow is what    *)
(* the code around the call does with a rejection: "propagate" (no local   *)
(* try), "skip" (try {} catch {}), "default" (catch returns the empty      *)
(* result), "warn" (catch pushes a warning).                               *)

Op(f, v, c) == [fn |-> f, view |-> v, onThrow |-> c]

analyzeSingleWebsite ==
    << Op("newPage", "desktop", "propagate"),
       Op("setViewport", "desktop", "propagate"),
       Op("goto", "desktop", "propagate"),
       Op("sleep", "desktop", "propagate"),
       Op("title", "desktop", "propagate"),
       Op("extractWebsiteIntelligence", "desktop", "propagate"),
       Op("extractColors", "desktop", "propagate"),
       Op("extractFonts", "desktop", "propagate"),
       Op("screenshot", "desktop", "propagate"),
       Op("setViewport", "mobile", "propagate"),
       Op("screenshot", "mobile", "propagate"),
       Op("close", "mobile", "propagate") >>

\* part_000 with stabilizePage lacking its try/catch.
analyzePart000Unwrapped ==
    << Op("newPage", "desktop", "propagate"),
       Op("hardenPage", "desktop", "propagate"),
       Op("setViewport", "desktop", "propagate"),
       Op("goto", "desktop", "propagate"),
       Op("stabilizePage", "desktop", "propagate"),
       Op("forceLoadImages", "desktop", "skip"),
       Op("aggressiveScroll", "desktop", "skip"),
       Op("screenshot", "desktop", "warn"),
       Op("extractCategory", "desktop", "default"),
       Op("extractCSSColors", "desktop", "default"),
       Op("extractFonts", "desktop", "default"),
       Op("extractTags", "desktop", "default"),
       Op("close", "desktop", "propagate"),
       Op("newPage", "mobile", "propagate"),
       Op("hardenPage", "mobile", "propagate"),
       Op("setViewport", "mobile", "propagate"),
       Op("goto", "mobile", "propagate"),
       Op("stabilizePage", "mobile", "propagate"),
       Op("screenshot", "mobile", "warn"),
       Op("close", "mobile", "propagate") >>

analyzePart000 ==
    << Op("newPage", "desktop", "propagate"),
       Op("hardenPage", "desktop", "propagate"),
       Op("setViewport", "desktop", "propagate"),
       Op("goto", "desktop", "propagate"),
       Op("stabilizePage", "desktop", "skip"),
       Op("forceLoadImages", "desktop", "skip"),
       Op("aggressiveScroll", "desktop", "skip"),
       Op("screenshot", "desktop", "warn"),
       Op("extractCategory", "desktop", "default"),
       Op("extractCSSColors", "desktop", "default"),
       Op("extractFonts", "desktop", "default"),
       Op("extractTags", "desktop", "default"),
       Op("close", "desktop", "propagate"),
       Op("newPage", "mobile", "propagate"),
       Op("hardenPage", "mobile", "propagate"),
       Op("setViewport", "mobile", "propagate"),
       Op("goto", "mobile", "propagate"),
       Op("stabilizePage", "mobile", "skip"),
       Op("screenshot", "mobile", "warn"),
       Op("close", "mobile", "propagate") >>

analyzePart001 ==
    << Op("newPage", "desktop", "propagate"),
       Op("setViewport", "desktop", "propagate"),
       Op("goto", "desktop", "propagate"),
       Op("sleep", "desktop", "propagate"),
       Op("title", "desktop", "propagate"),
       Op("extractCategory", "desktop", "propagate"),
       Op("extractColors", "desktop", "propagate"),
       Op("extractFonts", "desktop", "propagate"),
       Op("extractTags", "desktop", "propagate"),
       Op("screenshot", "desktop", "propagate"),
       Op("setViewport", "mobile", "propagate"),
       Op("screenshot", "mobile", "propagate"),
       Op("close", "mobile", "propagate") >>

Program(i) ==
    CASE i = "index" -> analyzeSingleWebsite
      [] i = "part_000" -> analyzePart000
      [] i = "part_001" -> analyzePart001

Extractors ==
    {"title", "extractWebsiteIntelligence", "extractColors", "extractCSSColors",
     "extractFonts", "extractTags", "extractCategory"}

PrepSteps == {"goto", "stabilizePage", "forceLoadImages", "aggressiveScroll"}

NoData == [e \in Extractors |-> "none"]

\* What an extractor's own catch block returns.
DefaultOf(fn) == IF fn = "extractCategory" THEN "Unknown" ELSE "[]"

NoResponse == [status |-> 0, body |-> "none"]

CurOp == Program(impl)[ip]


urls == body.urls.items

CurUrl == IF route = "bulk" THEN urls[urlIx] ELSE body.url

\* The object analyzeSingleWebsite returns (src/index.js 201-212).
AnalysisResult ==
    [url |-> CurUrl, data |-> data, desktopScreenshot |-> id, mobileScreenshot |-> id]

(* --------------------------- initial state ----------------------------- *)

OldFile == [view |-> "desktop", id |-> 0]

HandlerInit ==
    /\ impl \in Impls
    /\ route = "none"
    /\ body = "none"
    /\ pc = "idle"
    /\ ip = 0
    /\ urlIx = 0
    /\ id = 0
    /\ uuid = 0
    /\ browser = "none"
    /\ pages = 0
    /\ trace = <<>>
    /\ warnings = <<>>
    /\ data = NoData
    /\ results = <<>>
    /\ response = NoResponse
    /\ dir \in BOOLEAN
    /\ files = IF dir THEN {OldFile} ELSE {}
    /\ log = <<>>
    /\ lastSubmit = [n |-> 0, body |-> "none", status |-> 0]

\* No page content has been read.
NoDoc == [title |-> <<>>, innerText |-> <<>>]

NoCategory == [done |-> FALSE, label |-> "", categories |-> <<>>]

NoFontTypes == [done |-> FALSE, types |-> <<>>]

NoColors == [done |-> FALSE, hex |-> <<>>]

Init ==
    /\ HandlerInit
    /\ doc = NoDoc
    /\ category = NoCategory
    /\ styles = <<>>
    /\ colors = NoColors
    /\ fonts = <<>>
    /\ fontTypes = NoFontTypes
    /\ pending = {}
    /\ handled = <<>>

(* ----------------------- POST /analyze: entry -------------------------- *)

\* The guard of the handler's first statement, per program.
AnalyzeRejects(i, b) ==
    IF i = "part_000" THEN ~Truthy(b.url) \/ ~isValidUrl(b.url)
    ELSE ~isValidUrl(b.url)

\* return res.status(400).json(...)
PostAnalyzeInvalid ==
    /\ pc = "idle"
    /\ \E b \in AnalyzeBodies :
          /\ AnalyzeRejects(impl, b)
          /\ route' = "analyze"
          /\ body' = b
          /\ response' = [status |-> 400, body |-> "error"]
    /\ pc' = "done"
    /\ UNCHANGED <<impl, ip, urlIx, id, uuid, browser, pages, trace, warnings,
                   data, results, dir, files, log, lastSubmit, pure,
                   queue>>

\* ensureDir("screenshots"); part_000 and part_001 draw the identifier here.
PostAnalyze ==
    /\ pc = "idle"
    /\ \E b \in AnalyzeBodies :
          /\ ~AnalyzeRejects(impl, b)
          /\ route' = "analyze"
          /\ body' = b
    /\ dir' = TRUE
    /\ IF impl = "index"
       THEN UNCHANGED <<id, uuid>>
       ELSE id' = uuid + 1 /\ uuid' = uuid + 1
    /\ pc' = "launch"
    /\ UNCHANGED <<impl, ip, urlIx, browser, pages, trace, warnings, data,
                   results, response, files, log, lastSubmit, pure,
                   queue>>

(* --------------------- POST /analyze/bulk: entry ----------------------- *)

BulkRejects(b) == ~isArray(b.urls) \/ Len(b.urls.items) = 0

PostBulkInvalid ==
    /\ pc = "idle"
    /\ HasBulk(impl)
    /\ \E b \in BulkBodies :
          /\ BulkRejects(b)
          /\ route' = "bulk"
          /\ body' = b
          /\ response' = [status |-> 400, body |-> "error"]
    /\ pc' = "done"
    /\ UNCHANGED <<impl, ip, urlIx, id, uuid, browser, pages, trace, warnings,
                   data, results, dir, files, log, lastSubmit, pure,
                   queue>>

PostBulk ==
    /\ pc = "idle"
    /\ HasBulk(impl)
    /\ \E b \in BulkBodies :
          /\ ~BulkRejects(b)
          /\ route' = "bulk"
          /\ body' = b
    /\ dir' = TRUE
    /\ pc' = "launch"
    /\ UNCHANGED <<impl, ip, urlIx, id, uuid, browser, pages, trace, warnings,
                   data, results, response, files, log, lastSubmit, pure,
                   queue>>

(* --------------------------- puppeteer.launch -------------------------- *)

\* browser = await puppeteer.launch(...): a rejection leaves browser
\* undefined and is caught by the handler's catch.
Launch ==
    /\ pc = "launch"
    /\ \E ok \in BOOLEAN :
          IF ok
          THEN /\ browser' = "open"
               /\ IF route = "bulk"
                  THEN pc' = "loop" /\ urlIx' = 1 /\ ip' = 0 /\ UNCHANGED <<id, uuid>>
                  ELSE /\ pc' = "run" /\ ip' = 1 /\ UNCHANGED urlIx
                       /\ IF impl = "index"
                          THEN id' = uuid + 1 /\ uuid' = uuid + 1
                          ELSE UNCHANGED <<id, uuid>>
               /\ UNCHANGED response
          ELSE /\ response' = [status |-> 500, body |-> "error"]
               /\ pc' = "finally"
               /\ UNCHANGED <<browser, urlIx, ip, id, uuid>>
    /\ UNCHANGED <<impl, route, body, pages, trace, warnings, data, results,
                   dir, files, log, lastSubmit, pure,
                   queue>>

(* ------------------------ the awaited page calls ----------------------- *)

Awaiting(fns) == pc = "run" /\ CurOp.fn \in fns

\* The call at ip resolved, or its rejection was caught around the call.
Resume ==
    IF ip < Len(Program(impl))
    THEN /\ ip' = ip + 1
         /\ pc' = "run"
         /\ UNCHANGED <<urlIx, results>>
    ELSE /\ ip' = 0
         /\ IF route = "bulk"
            THEN /\ results' = Append(results, [success |-> TRUE, data |-> AnalysisResult])
                 /\ urlIx' = urlIx + 1
                 /\ pc' = "loop"
            ELSE /\ pc' = "respond"
                 /\ UNCHANGED <<urlIx, results>>

\* The bulk loop without its per-URL try/catch.
RejectAborts ==
    /\ ip' = 0
    /\ response' = [status |-> 500, body |-> "error"]
    /\ pc' = "finally"
    /\ UNCHANGED <<urlIx, results>>

\* The rejection reaches the nearest enclosing catch: the per-URL catch of
\* the bulk loop, or the handler's catch, which answers 500.
Reject ==
    /\ ip' = 0
    /\ IF route = "bulk"
       THEN /\ results' = Append(results,
                   [url |-> CurUrl, success |-> FALSE, error |-> "Analysis failed"])
            /\ urlIx' = urlIx + 1
            /\ pc' = "loop"
            /\ UNCHANGED response
       ELSE /\ response' = [status |-> 500, body |-> "error"]
            /\ pc' = "finally"
            /\ UNCHANGED <<urlIx, results>>

Caught == CurOp.onThrow # "propagate"

Continue(ok) ==
    IF ok \/ Caught THEN Resume /\ UNCHANGED response ELSE Reject

Record(ok) == trace' = Append(trace, [fn |-> CurOp.fn, view |-> CurOp.view, ok |-> ok])

\* A call with no effect on the modelled state besides its outcome.
Settle ==
    /\ \E ok \in BOOLEAN : Record(ok) /\ Continue(ok)
    /\ UNCHANGED <<impl, route, body, id, uuid, browser, pages, warnings, data,
                   dir, files, log, lastSubmit, pure,
                   queue>>

NewPage ==
    /\ Awaiting({"newPage"})
    /\ \E ok \in BOOLEAN :
          /\ Record(ok)
          /\ Continue(ok)
          /\ pages' = IF ok THEN pages + 1 ELSE pages
    /\ UNCHANGED <<impl, route, body, id, uuid, browser, warnings, data, dir,
                   files, log, lastSubmit, pure,
                   queue>>

HardenPage ==
    /\ Awaiting({"hardenPage"})
    /\ Settle

SetViewport ==
    /\ Awaiting({"setViewport"})
    /\ Settle

Goto ==
    /\ Awaiting({"goto"})
    /\ Settle

\* sleep(ms) resolves after its timer; it has no rejection.
Sleep ==
    /\ Awaiting({"sleep"})
    /\ Record(TRUE)
    /\ Continue(TRUE)
    /\ UNCHANGED <<impl, route, body, id, uuid, browser, pages, warnings, data,
                   dir, files, log, lastSubmit, pure,
                   queue>>

StabilizePage ==
    /\ Awaiting({"stabilizePage"})
    /\ Settle

ForceLoadImages ==
    /\ Awaiting({"forceLoadImages"})
    /\ Settle

AggressiveScroll ==
    /\ Awaiting({"aggressiveScroll"})
    /\ Settle

Extract ==
    /\ Awaiting(Extractors)
    /\ \E ok \in BOOLEAN :
          /\ Record(ok)
          /\ Continue(ok)
          /\ data' = IF ok THEN [data EXCEPT ![CurOp.fn] = "value"]
                     ELSE IF CurOp.onThrow = "default"
                          THEN [data EXCEPT ![CurOp.fn] = DefaultOf(CurOp.fn)]
                          ELSE data
    /\ UNCHANGED <<impl, route, body, id, uuid, browser, pages, warnings, dir,
                   files, log, lastSubmit, pure,
                   queue>>

WarningOf(view) ==
    IF view = "desktop" THEN "Desktop screenshot was partially captured."
    ELSE "Mobile screenshot could not be fully generated."

Screenshot ==
    /\ Awaiting({"screenshot"})
    /\ \E ok \in BOOLEAN :
          /\ Record(ok)
          /\ Continue(ok)
          /\ files' = IF ok THEN files \cup {[view |-> CurOp.view, id |-> id]} ELSE files
          /\ warnings' = IF ~ok /\ CurOp.onThrow = "warn"
                         THEN Append(warnings, WarningOf(CurOp.view))
                         ELSE warnings
    /\ UNCHANGED <<impl, route, body, id, uuid, browser, pages, data, dir, log,
                   lastSubmit, pure,
                   queue>>

ClosePage ==
    /\ Awaiting({"close"})
    /\ \E ok \in BOOLEAN :
          /\ Record(ok)
          /\ Continue(ok)
          /\ pages' = IF ok THEN pages - 1 ELSE pages
    /\ UNCHANGED <<impl, route, body, id, uuid, browser, warnings, data, dir,
                   files, log, lastSubmit, pure,
                   queue>>


(* ----------------------- POST /analyze/bulk: loop ---------------------- *)

InLoop == pc = "loop" /\ urlIx <= Len(urls)

\* continue without recording the invalid URL.
SkipInvalid(rs, url) == rs

\* results.push({ url, success: false, error: "Invalid URL" }); continue;
PushInvalid(rs, url) ==
    Append(rs, [url |-> url, success |-> FALSE, error |-> "Invalid URL"])

BulkInvalidUrl ==
    /\ InLoop
    /\ ~isValidUrl(CurUrl)
    /\ results' = PushInvalid(results, CurUrl)
    /\ urlIx' = urlIx + 1
    /\ UNCHANGED <<impl, route, body, pc, ip, id, uuid, browser, pages, trace,
                   warnings, data, response, dir, files, log, lastSubmit, pure,
                   queue>>

\* The call analyzeSingleWebsite(browser, url) up to its first await.
BulkAnalyze ==
    /\ InLoop
    /\ isValidUrl(CurUrl)
    /\ id' = uuid + 1
    /\ uuid' = uuid + 1
    /\ trace' = <<>>
    /\ data' = NoData
    /\ pc' = "run"
    /\ ip' = 1
    /\ UNCHANGED <<impl, route, body, urlIx, browser, pages, warnings, results,
                   response, dir, files, log, lastSubmit, pure,
                   queue>>

Count(rs, s) == Cardinality({i \in 1..Len(rs) : rs[i].success = s})

BulkRespond ==
    /\ pc = "loop"
    /\ urlIx > Len(urls)
    /\ response' = [status |-> 200,
                    body |-> [total |-> Len(urls),
                              success |-> Count(results, TRUE),
                              failed |-> Count(results, FALSE),
                              results |-> results]]
    /\ pc' = "finally"
    /\ UNCHANGED <<impl, route, body, ip, urlIx, id, uuid, browser, pages, trace,
                   warnings, data, results, dir, files, log, lastSubmit, pure,
                   queue>>

(* ----------------------- response and tear-down ------------------------ *)

ResponseBody(i) ==
    CASE i = "index" -> AnalysisResult
      [] i = "part_000" ->
            [status |-> IF Len(warnings) > 0 THEN "partial_success" ELSE "success",
             data |-> data, desktop |-> id, mobile |-> id, warnings |-> warnings]
      [] i = "part_001" -> [data |-> data, desktop |-> id, mobile |-> id]

\* res.json(...) of the single-URL handlers.
Respond ==
    /\ pc = "respond"
    /\ response' = [status |-> 200, body |-> ResponseBody(impl)]
    /\ pc' = "finally"
    /\ UNCHANGED <<impl, route, body, ip, urlIx, id, uuid, browser, pages, trace,
                   warnings, data, results, dir, files, log, lastSubmit, pure,
                   queue>>

\* A handler without the finally block.
LeaveOpen(b) == b

\* finally { if (browser) await browser.close(); }
FinallyClose(b) == IF b = "open" THEN "closed" ELSE b

Finally ==
    /\ pc = "finally"
    /\ browser' = FinallyClose(browser)
    /\ pages' = IF browser' = "closed" THEN 0 ELSE pages
    /\ pc' = "done"
    /\ UNCHANGED <<impl, route, body, ip, urlIx, id, uuid, trace, warnings, data,
                   results, response, dir, files, log, lastSubmit, pure,
                   queue>>

(* ------------------------------ /submit -------------------------------- *)

SubmitRejects(b) == ~Truthy(b.url) \/ ~Truthy(b.websiteName)

\* JSON.stringify(data, null, 2): the object's text, one piece per brace, key
\* and string value; a property whose value is undefined is left out.
stringify(b) ==
    <<"{">>
    \o (IF b.url = Undefined THEN <<>> ELSE <<"url", b.url>>)
    \o (IF b.websiteName = Undefined THEN <<>> ELSE <<"websiteName", b.websiteName>>)
    \o <<"}">>

\* JSON.stringify(data, null, 2) + ",\n"
Block(b) == stringify(b) \o <<",\n">>

\* fs.appendFileSync(path, text): the file's content afterwards.
appendFileSync(file, text) == file \o text

\* The handler is synchronous: it runs to completion between two steps of
\* any analysis in flight.
Submit ==
    /\ HasSubmit(impl)
    /\ lastSubmit.n < MaxSubmits
    /\ \E b \in SubmitBodies :
          IF SubmitRejects(b)
          THEN /\ lastSubmit' = [n |-> lastSubmit.n + 1, body |-> b, status |-> 400]
               /\ UNCHANGED log
          ELSE /\ log' = appendFileSync(log, Block(b))
               /\ lastSubmit' = [n |-> lastSubmit.n + 1, body |-> b, status |-> 200]
    /\ UNCHANGED <<impl, route, body, pc, ip, urlIx, id, uuid, browser, pages,
                   trace, warnings, data, results, response, dir, files, pure,
                   queue>>

(* --------------------------- the server ------------------------------- *)

Next ==
    \/ PostAnalyzeInvalid
    \/ PostAnalyze
    \/ PostBulkInvalid
    \/ PostBulk
    \/ Launch
    \/ NewPage
    \/ HardenPage
    \/ SetViewport
    \/ Goto
    \/ Sleep
    \/ StabilizePage
    \/ ForceLoadImages
    \/ AggressiveScroll
    \/ Extract
    \/ Screenshot
    \/ ClosePage
    \/ BulkInvalidUrl
    \/ BulkAnalyze
    \/ BulkRespond
    \/ Respond
    \/ Finally
    \/ Submit

Spec == Init /\ [][Next]_vars

(* ======================= claims on the handlers ======================== *)

Threw(fns) == {k \in 1..Len(trace) : trace[k].fn \in fns /\ ~trace[k].ok}

Ran(fn, view) == \E k \in 1..Len(trace) : trace[k].fn = fn /\ trace[k].view = view

AllFns == {"newPage", "hardenPage", "setViewport", "goto", "sleep", "stabilizePage",
           "forceLoadImages", "aggressiveScroll", "screenshot", "close"} \cup Extractors

\* C1: a handler that has finished never leaves the browser it launched
\* open, whichever way it finished (200, 500, failures inside a batch).
C1_BrowserClosedAtExit ==
    pc = "done" => browser # "open" /\ pages = 0

\* C1 witness: a batch whose two analyses both failed, the second on a
\* rejected screenshot, has ended with the browser closed.
C1_Witness ==
    /\ pc = "done"
    /\ browser = "closed"
    /\ route = "bulk"
    /\ Len(results) = 2
    /\ \A i \in 1..2 : ~results[i].success /\ results[i].error = "Analysis failed"
    /\ Threw({"screenshot"}) # {}

\* C2: a request rejected by validation is answered 400, launches no
\* browser and leaves directory, screenshot files and submission log as
\* they were; a /submit without url or websiteName appends nothing.
C2_RejectedNoSideEffect ==
    /\ [](\/ route = "analyze" /\ body.url \notin AbsoluteUrls
          \/ route = "bulk" /\ (body.urls.type # "array" \/ body.urls.items = <<>>)
          => response.status = 400 /\ browser = "none" /\ pc = "done")
    /\ [][response'.status = 400
          => browser' = "none" /\ pages' = 0 /\ files' = files /\ dir' = dir
             /\ uuid' = uuid]_vars
    /\ [][/\ lastSubmit'.n # lastSubmit.n
          /\ Undefined \in {lastSubmit'.body.url, lastSubmit'.body.websiteName}
          => lastSubmit'.status = 400 /\ log' = log /\ files' = files]_vars

\* C2 witness: a malformed URL was answered 400 with an earlier screenshot
\* on disk, and a /submit without websiteName was answered 400.
C2_Witness ==
    /\ response.status = 400
    /\ route = "analyze"
    /\ body.url = "not a url"
    /\ files # {}
    /\ lastSubmit.status = 400
    /\ lastSubmit.body.websiteName = Undefined

\* C3: a 200 response of /analyze/bulk has total = success + failed =
\* length(results), and total is the number of input URLs.
C3_BulkCounts ==
    route = "bulk" /\ response.status = 200 =>
        LET r == response.body
        IN  /\ r.total = r.success + r.failed
            /\ r.total = Len(r.results)
            /\ r.total = Len(body.urls.items)
            /\ r.success = Cardinality({i \in 1..Len(r.results) : r.results[i].success})

\* C3 witness: a 200 for a list mixing an invalid URL and a success.
C3_Witness ==
    /\ route = "bulk"
    /\ response.status = 200
    /\ response.body.total = 2
    /\ \E i, j \in 1..2 :
          /\ ~response.body.results[i].success
          /\ response.body.results[i].error = "Invalid URL"
          /\ response.body.results[j].success

EntryUrl(r) == IF r.success THEN r.data.url ELSE r.url

\* C4: the batch is processed in list order, one entry per URL: the i-th
\* entry of results is the outcome of the i-th URL (an "Invalid URL" entry
\* exactly for the invalid ones), a failure never ends the loop, and every
\* valid URL is analyzed exactly once.
C4_BulkOrderAndIsolation ==
    route = "bulk" /\ browser # "none" =>
        /\ pc \in {"loop", "run"} => Len(results) = urlIx - 1
        /\ \A i \in 1..Len(results) :
              /\ EntryUrl(results[i]) = body.urls.items[i]
              /\ body.urls.items[i] \notin AbsoluteUrls
                    <=> (~results[i].success /\ results[i].error = "Invalid URL")
        /\ pc \in {"finally", "done"} =>
              /\ response.status = 200
              /\ Len(results) = Len(body.urls.items)
              /\ uuid = Cardinality({i \in 1..Len(results) :
                                        body.urls.items[i] \in AbsoluteUrls})

\* C4 witness: the first URL's analysis failed, the second succeeded.
C4_Witness ==
    /\ route = "bulk"
    /\ pc = "done"
    /\ Len(results) = 2
    /\ ~results[1].success
    /\ results[1].error = "Analysis failed"
    /\ results[2].success

SignalExtractors == Extractors \ {"title"}

HasWarnings ==
    /\ response.status = 200
    /\ "warnings" \in DOMAIN response.body
    /\ Len(response.body.warnings) > 0

RanToEnd == Len(trace) = Len(Program(impl))

\* C5: when exactly one signal extractor throws during an analysis (and
\* nothing else does), the request is answered 200, the failure is recorded
\* as a warning in the response, the extractor yields its empty/default
\* result and every other call of the analysis still runs.
C5_ExtractorFailureIsolated ==
    /\ route = "analyze"
    /\ pc = "done"
    /\ Cardinality(Threw(SignalExtractors)) = 1
    /\ Threw(AllFns \ SignalExtractors) = {}
    => /\ response.status = 200
       /\ HasWarnings
       /\ RanToEnd
       /\ \A k \in Threw(SignalExtractors) : data[trace[k].fn] = DefaultOf(trace[k].fn)

\* C6: when a screenshot capture throws (and nothing else does), a warning
\* is appended to the response's warnings, the other capture is still
\* attempted and the request is answered 200.
C6_ScreenshotFailureIsolated ==
    /\ route = "analyze"
    /\ pc = "done"
    /\ Threw({"screenshot"}) # {}
    /\ Threw(AllFns \ {"screenshot"}) = {}
    => /\ response.status = 200
       /\ HasWarnings
       /\ Len(response.body.warnings) = Cardinality(Threw({"screenshot"}))
       /\ Ran("screenshot", "desktop")
       /\ Ran("screenshot", "mobile")

\* The calls of the analysis ran once each, in program order.
NoRetry ==
    \A k \in 1..Len(trace) :
        /\ k <= Len(Program(impl))
        /\ trace[k].fn = Program(impl)[k].fn
        /\ trace[k].view = Program(impl)[k].view

\* The analysis went on after the call at position k of the trace.
WentOnAfter(k) == Len(trace) > k \/ (pc = "run" /\ ip = k + 1)

Tolerant(steps) ==
    /\ NoRetry
    /\ \A k \in Threw(steps) : WentOnAfter(k)
    /\ (route = "analyze" /\ pc = "done" /\ browser # "none"
           /\ Threw(AllFns \ steps) = {})
          => response.status = 200 /\ RanToEnd

\* C7 as stated: a rejection of any page-preparation step, navigation
\* included, skips only that step; the analysis goes on and is not answered
\* with an error.
C7_EveryPrepStepTolerant == Tolerant(PrepSteps)

CaughtPrepSteps == PrepSteps \ {"goto"}

\* C7 as amended: the network-idle wait, the forced image loading and the
\* auto-scroll are skipped on rejection and the analysis goes on, each call
\* running once; a rejected navigation ends the analysis at that call, with
\* a 500 (single URL) or an "Analysis failed" entry (batch), and the
\* browser is closed when the handler ends.
C7_PrepStepsTolerantNavigationFatal ==
    /\ Tolerant(CaughtPrepSteps)
    /\ \A k \in Threw({"goto"}) :
          /\ k = Len(trace)
          /\ pc # "run"
          /\ pc = "done" => browser = "closed"
          /\ route = "analyze" => response.status = 500
          /\ route = "bulk" =>
                \E i \in 1..Len(results) :
                    ~results[i].success /\ results[i].error = "Analysis failed"

\* C7 witness: in part_000 both network-idle waits, the image loading and
\* the auto-scroll were rejected, and the request ended 200 with all four
\* extractions and both captures done.
C7_Witness ==
    /\ pc = "done"
    /\ response.status = 200
    /\ Cardinality(Threw(CaughtPrepSteps)) = 4
    /\ Threw(AllFns \ CaughtPrepSteps) = {}
    /\ \A e \in {"extractCategory", "extractCSSColors", "extractFonts", "extractTags"} :
          data[e] = "value"
    /\ Cardinality(files) >= 2

(* ===================== category classification ======================== *)

LowerOf ==
    [A |-> "a", B |-> "b", C |-> "c", D |-> "d", E |-> "e", F |-> "f", G |-> "g", H |-> "h", I |-> "i", J |-> "j", K |-> "k", L |-> "l", M |-> "m", N |-> "n", O |-> "o", P |-> "p", Q |-> "q", R |-> "r", S |-> "s", T |-> "t", U |-> "u", V |-> "v", W |-> "w", X |-> "x", Y |-> "y", Z |-> "z"]

Min(a, b) == IF a < b THEN a ELSE b

\* String.prototype.slice(from, to) for 0 <= from <= to.
slice(s, from, to) == SubSeq(s, from + 1, Min(to, Len(s)))

toLowerCase(s) ==
    [i \in 1..Len(s) |-> IF s[i] \in DOMAIN LowerOf THEN LowerOf[s[i]] ELSE s[i]]

\* String.prototype.includes for a non-empty k.
includes(text, k) ==
    \E i \in 1..(Len(text) - Len(k) + 1) :
        text[i] = k[1] /\ SubSeq(text, i, i + Len(k) - 1) = k

\* CATEGORY_RULES of src/index.js (label and keywords; the tags column feeds
\* websiteTags only).
CATEGORY_RULES ==
    <<
       [label |-> "Technology",
        keywords |-> << << "s", "o", "f", "t", "w", "a", "r", "e" >>,
                      << "a", "p", "i" >>,
                      << "c", "l", "o", "u", "d" >>,
                      << "d", "e", "v", "e", "l", "o", "p", "e", "r" >>,
                      << "c", "o", "d", "e" >> >>],
       [label |-> "AI / Machine Learning",
        keywords |-> << << "a", "i" >>,
                      << "m", "a", "c", "h", "i", "n", "e", " ", "l", "e", "a", "r", "n", "i", "n", "g" >>,
                      << "l", "l", "m" >>,
                      << "c", "h", "a", "t", "b", "o", "t" >>,
                      << "a", "u", "t", "o", "m", "a", "t", "i", "o", "n" >> >>],
       [label |-> "Education",
        keywords |-> << << "c", "o", "u", "r", "s", "e" >>,
                      << "l", "e", "a", "r", "n" >>,
                      << "a", "c", "a", "d", "e", "m", "y" >>,
                      << "t", "r", "a", "i", "n", "i", "n", "g" >>,
                      << "e", "d", "u", "c", "a", "t", "i", "o", "n" >> >>],
       [label |-> "E-commerce",
        keywords |-> << << "s", "h", "o", "p" >>,
                      << "c", "a", "r", "t" >>,
                      << "c", "h", "e", "c", "k", "o", "u", "t" >>,
                      << "b", "u", "y" >>,
                      << "p", "r", "o", "d", "u", "c", "t" >> >>],
       [label |-> "Social Media",
        keywords |-> << << "s", "o", "c", "i", "a", "l" >>,
                      << "c", "o", "m", "m", "u", "n", "i", "t", "y" >>,
                      << "f", "o", "l", "l", "o", "w", "e", "r", "s" >>,
                      << "s", "h", "a", "r", "e" >> >>],
       [label |-> "Entertainment",
        keywords |-> << << "m", "o", "v", "i", "e" >>,
                      << "m", "u", "s", "i", "c" >>,
                      << "v", "i", "d", "e", "o" >>,
                      << "e", "n", "t", "e", "r", "t", "a", "i", "n", "m", "e", "n", "t" >>,
                      << "s", "t", "r", "e", "a", "m" >> >>],
       [label |-> "Finance",
        keywords |-> << << "b", "a", "n", "k" >>,
                      << "f", "i", "n", "a", "n", "c", "e" >>,
                      << "i", "n", "v", "e", "s", "t", "m", "e", "n", "t" >>,
                      << "c", "r", "y", "p", "t", "o" >> >>],
       [label |-> "Healthcare",
        keywords |-> << << "h", "e", "a", "l", "t", "h" >>,
                      << "c", "l", "i", "n", "i", "c" >>,
                      << "m", "e", "d", "i", "c", "a", "l" >>,
                      << "d", "o", "c", "t", "o", "r" >> >>] >>

\* The rules table of extractCategory in part_000.
rules_000 ==
    <<
       [label |-> "E-commerce",
        keywords |-> << << "s", "h", "o", "p" >>,
                      << "s", "t", "o", "r", "e" >>,
                      << "c", "a", "r", "t" >>,
                      << "c", "h", "e", "c", "k", "o", "u", "t" >>,
                      << "b", "u", "y" >>,
                      << "o", "r", "d", "e", "r" >>,
                      << "p", "r", "o", "d", "u", "c", "t" >>,
                      << "s", "a", "l", "e" >> >>],
       [label |-> "Marketplace",
        keywords |-> << << "m", "a", "r", "k", "e", "t", "p", "l", "a", "c", "e" >>,
                      << "v", "e", "n", "d", "o", "r", "s" >>,
                      << "s", "e", "l", "l", "e", "r", "s" >>,
                      << "l", "i", "s", "t", "i", "n", "g", "s" >> >>],
       [label |-> "Technology / SaaS",
        keywords |-> << << "s", "o", "f", "t", "w", "a", "r", "e" >>,
                      << "s", "a", "a", "s" >>,
                      << "p", "l", "a", "t", "f", "o", "r", "m" >>,
                      << "c", "l", "o", "u", "d" >>,
                      << "a", "p", "i" >>,
                      << "d", "a", "s", "h", "b", "o", "a", "r", "d" >>,
                      << "i", "n", "t", "e", "g", "r", "a", "t", "i", "o", "n" >> >>],
       [label |-> "AI / Data / ML",
        keywords |-> << << "a", "r", "t", "i", "f", "i", "c", "i", "a", "l", " ", "i", "n", "t", "e", "l", "l", "i", "g", "e", "n", "c", "e" >>,
                      << "m", "a", "c", "h", "i", "n", "e", " ", "l", "e", "a", "r", "n", "i", "n", "g" >>,
                      << "a", "i" >>,
                      << "l", "l", "m" >>,
                      << "c", "h", "a", "t", "b", "o", "t" >>,
                      << "a", "n", "a", "l", "y", "t", "i", "c", "s" >> >>],
       [label |-> "Education",
        keywords |-> << << "e", "d", "u", "c", "a", "t", "i", "o", "n" >>,
                      << "c", "o", "u", "r", "s", "e" >>,
                      << "l", "e", "a", "r", "n" >>,
                      << "t", "r", "a", "i", "n", "i", "n", "g" >>,
                      << "t", "u", "t", "o", "r", "i", "a", "l" >>,
                      << "a", "c", "a", "d", "e", "m", "y" >>,
                      << "c", "e", "r", "t", "i", "f", "i", "c", "a", "t", "i", "o", "n" >> >>],
       [label |-> "Finance",
        keywords |-> << << "b", "a", "n", "k" >>,
                      << "b", "a", "n", "k", "i", "n", "g" >>,
                      << "i", "n", "v", "e", "s", "t", "m", "e", "n", "t" >>,
                      << "l", "o", "a", "n" >>,
                      << "i", "n", "s", "u", "r", "a", "n", "c", "e" >>,
                      << "f", "i", "n", "a", "n", "c", "e" >> >>],
       [label |-> "Healthcare",
        keywords |-> << << "h", "e", "a", "l", "t", "h" >>,
                      << "m", "e", "d", "i", "c", "a", "l" >>,
                      << "c", "l", "i", "n", "i", "c" >>,
                      << "h", "o", "s", "p", "i", "t", "a", "l" >>,
                      << "d", "o", "c", "t", "o", "r" >>,
                      << "p", "a", "t", "i", "e", "n", "t" >> >>],
       [label |-> "News / Media",
        keywords |-> << << "n", "e", "w", "s" >>,
                      << "m", "e", "d", "i", "a" >>,
                      << "j", "o", "u", "r", "n", "a", "l" >>,
                      << "h", "e", "a", "d", "l", "i", "n", "e" >>,
                      << "b", "r", "e", "a", "k", "i", "n", "g", " ", "n", "e", "w", "s" >> >>],
       [label |-> "Blog / Content",
        keywords |-> << << "b", "l", "o", "g" >>,
                      << "a", "r", "t", "i", "c", "l", "e" >>,
                      << "p", "o", "s", "t" >>,
                      << "r", "e", "a", "d", " ", "m", "o", "r", "e" >>,
                      << "a", "u", "t", "h", "o", "r" >>,
                      << "c", "o", "m", "m", "e", "n", "t", "s" >> >>],
       [label |-> "Portfolio / Personal",
        keywords |-> << << "p", "o", "r", "t", "f", "o", "l", "i", "o" >>,
                      << "m", "y", " ", "w", "o", "r", "k" >>,
                      << "p", "r", "o", "j", "e", "c", "t", "s" >>,
                      << "c", "a", "s", "e", " ", "s", "t", "u", "d", "y" >>,
                      << "d", "e", "v", "e", "l", "o", "p", "e", "r" >>,
                      << "d", "e", "s", "i", "g", "n", "e", "r" >> >>],
       [label |-> "Corporate Website",
        keywords |-> << << "a", "b", "o", "u", "t", " ", "u", "s" >>,
                      << "o", "u", "r", " ", "c", "o", "m", "p", "a", "n", "y" >>,
                      << "l", "e", "a", "d", "e", "r", "s", "h", "i", "p" >>,
                      << "i", "n", "v", "e", "s", "t", "o", "r", "s" >>,
                      << "c", "a", "r", "e", "e", "r", "s" >>,
                      << "m", "i", "s", "s", "i", "o", "n" >> >>],
       [label |-> "Real Estate",
        keywords |-> << << "r", "e", "a", "l", " ", "e", "s", "t", "a", "t", "e" >>,
                      << "p", "r", "o", "p", "e", "r", "t", "y" >>,
                      << "r", "e", "n", "t" >>,
                      << "b", "u", "y", " ", "h", "o", "m", "e" >> >>],
       [label |-> "Travel / Hospitality",
        keywords |-> << << "t", "r", "a", "v", "e", "l" >>,
                      << "h", "o", "t", "e", "l" >>,
                      << "b", "o", "o", "k", "i", "n", "g" >>,
                      << "r", "e", "s", "e", "r", "v", "a", "t", "i", "o", "n" >>,
                      << "v", "a", "c", "a", "t", "i", "o", "n" >> >>],
       [label |-> "Government / Public Service",
        keywords |-> << << "g", "o", "v", "e", "r", "n", "m", "e", "n", "t" >>,
                      << "m", "i", "n", "i", "s", "t", "r", "y" >>,
                      << "p", "u", "b", "l", "i", "c", " ", "s", "e", "r", "v", "i", "c", "e" >>,
                      << "p", "o", "l", "i", "c", "y" >> >>],
       [label |-> "Non-Profit / NGO",
        keywords |-> << << "n", "g", "o" >>,
                      << "c", "h", "a", "r", "i", "t", "y" >>,
                      << "d", "o", "n", "a", "t", "i", "o", "n" >>,
                      << "v", "o", "l", "u", "n", "t", "e", "e", "r" >>,
                      << "f", "o", "u", "n", "d", "a", "t", "i", "o", "n" >> >>] >>

\* The rules table of extractCategory in part_001.
rules_001 ==
    <<
       [label |-> "AI / Data / ML",
        keywords |-> << << "a", "i" >>,
                      << "m", "a", "c", "h", "i", "n", "e", " ", "l", "e", "a", "r", "n", "i", "n", "g" >>,
                      << "c", "h", "a", "t", "b", "o", "t" >>,
                      << "l", "l", "m" >>,
                      << "a", "n", "a", "l", "y", "t", "i", "c", "s" >> >>],
       [label |-> "Social Media",
        keywords |-> << << "s", "o", "c", "i", "a", "l" >>,
                      << "c", "o", "m", "m", "u", "n", "i", "t", "y" >>,
                      << "f", "o", "l", "l", "o", "w", "e", "r", "s" >>,
                      << "s", "h", "a", "r", "e" >> >>],
       [label |-> "E-commerce",
        keywords |-> << << "s", "h", "o", "p" >>,
                      << "s", "t", "o", "r", "e" >>,
                      << "c", "a", "r", "t" >>,
                      << "c", "h", "e", "c", "k", "o", "u", "t" >>,
                      << "b", "u", "y" >> >>],
       [label |-> "Education",
        keywords |-> << << "c", "o", "u", "r", "s", "e" >>,
                      << "l", "e", "a", "r", "n" >>,
                      << "a", "c", "a", "d", "e", "m", "y" >>,
                      << "t", "r", "a", "i", "n", "i", "n", "g" >> >>],
       [label |-> "Finance",
        keywords |-> << << "b", "a", "n", "k" >>,
                      << "f", "i", "n", "a", "n", "c", "e" >>,
                      << "i", "n", "v", "e", "s", "t", "m", "e", "n", "t" >>,
                      << "c", "r", "y", "p", "t", "o" >> >>],
       [label |-> "Healthcare",
        keywords |-> << << "h", "e", "a", "l", "t", "h" >>,
                      << "m", "e", "d", "i", "c", "a", "l" >>,
                      << "c", "l", "i", "n", "i", "c" >> >>],
       [label |-> "SaaS / Technology",
        keywords |-> << << "s", "o", "f", "t", "w", "a", "r", "e" >>,
                      << "p", "l", "a", "t", "f", "o", "r", "m" >>,
                      << "a", "p", "i" >>,
                      << "d", "a", "s", "h", "b", "o", "a", "r", "d" >> >>],
       [label |-> "News / Media",
        keywords |-> << << "n", "e", "w", "s" >>,
                      << "m", "e", "d", "i", "a" >>,
                      << "h", "e", "a", "d", "l", "i", "n", "e" >> >>],
       [label |-> "Portfolio",
        keywords |-> << << "p", "o", "r", "t", "f", "o", "l", "i", "o" >>,
                      << "p", "r", "o", "j", "e", "c", "t", "s" >>,
                      << "c", "a", "s", "e", " ", "s", "t", "u", "d", "y" >> >>] >>

TextLimitIndex == 6000

TextLimit000 == 3000

TextLimit001 == 3000

MaxCategories == 6

\* (document.title + " " + document.body.innerText.slice(0, limit)).toLowerCase()
PageText(d, limit) == toLowerCase(d.title \o <<" ">> \o slice(d.innerText, 0, limit))

\* The number of the rule's keywords that occur in the text.
Score(text, keywords) ==
    Cardinality({j \in 1..Len(keywords) : includes(text, keywords[j])})

\* The loop with score >= highestScore: the last rule at the maximum wins.
RECURSIVE BestOrEqual(_, _, _, _, _)
BestOrEqual(rules, text, i, bestCategory, highestScore) ==
    IF i > Len(rules) THEN bestCategory
    ELSE LET score == Score(text, rules[i].keywords)
         IN  IF score >= highestScore /\ score > 0
             THEN BestOrEqual(rules, text, i + 1, rules[i].label, score)
             ELSE BestOrEqual(rules, text, i + 1, bestCategory, highestScore)

\* The for..of loop of extractCategory from rule i on.
RECURSIVE Best(_, _, _, _, _)
Best(rules, text, i, bestCategory, highestScore) ==
    IF i > Len(rules) THEN bestCategory
    ELSE LET score == Score(text, rules[i].keywords)
         IN  IF score > highestScore
             THEN Best(rules, text, i + 1, rules[i].label, score)
             ELSE Best(rules, text, i + 1, bestCategory, highestScore)

extractCategory_000(d) ==
    Best(rules_000, PageText(d, TextLimit000), 1, "General Website", 0)

extractCategory_001(d) ==
    Best(rules_001, PageText(d, TextLimit001), 1, "General Website", 0)

\* categoryScores after the loop over RULES: the rules with a score above
\* zero, in table order.
categoryScores(text) ==
    LET all == [i \in 1..Len(CATEGORY_RULES) |->
                   [label |-> CATEGORY_RULES[i].label,
                    score |-> Score(text, CATEGORY_RULES[i].keywords)]]
    IN  SelectSeq(all, LAMBDA c : c.score > 0)

\* An insertion that puts c in front of the elements of equal score.
InsertBeforeEqual(sorted, c) ==
    LET n == Cardinality({i \in 1..Len(sorted) : sorted[i].score > c.score})
    IN  SubSeq(sorted, 1, n) \o <<c>> \o SubSeq(sorted, n + 1, Len(sorted))

\* One insertion of the stable sort: c goes behind every element that the
\* comparator (a, b) => b.score - a.score does not put after it.
InsertSorted(sorted, c) ==
    LET n == Cardinality({i \in 1..Len(sorted) : sorted[i].score >= c.score})
    IN  SubSeq(sorted, 1, n) \o <<c>> \o SubSeq(sorted, n + 1, Len(sorted))

\* Array.prototype.sort((a, b) => b.score - a.score); the sort of the
\* browser the evaluation runs in is stable.
RECURSIVE sort(_)
sort(s) ==
    IF Len(s) = 0 THEN <<>>
    ELSE InsertSorted(sort(SubSeq(s, 1, Len(s) - 1)), s[Len(s)])

extractWebsiteIntelligence(d) ==
    LET sorted == sort(categoryScores(PageText(d, TextLimitIndex)))
        labels == [i \in 1..Len(sorted) |-> sorted[i].label]
        categories == slice(labels, 0, MaxCategories)
    IN  [websiteType |-> IF Len(categories) > 0 THEN categories[1] ELSE "General Website",
         categories |-> categories]

(* The documents classified: a title and an innerText made of some of the  *)
(* first MaxSentences sentences, in their order.                           *)

Titles ==
    {<< "H", "e", "l", "l", "o", " ", "W", "o", "r", "l", "d" >>,
     << "A", "I", " ", "S", "h", "o", "p" >>,
     << "T", "r", "a", "i", "n", "i", "n", "g" >>}

Sentences ==
    << << "B", "u", "y", " ", "c", "l", "o", "u", "d", " ", "s", "o", "f", "t", "w", "a", "r", "e", ".", " " >>,
       << "L", "e", "a", "r", "n", " ", "A", "I", ".", " " >>,
       << "S", "h", "a", "r", "e", " ", "m", "u", "s", "i", "c", ".", " " >>,
       << "B", "a", "n", "k", " ", "h", "e", "a", "l", "t", "h", ".", " " >>,
       << "O", "u", "r", " ", "s", "t", "o", "r", "e", ".", " " >>,
       << "N", "e", "w", "s", "." >> >>

RECURSIVE Concat(_, _)
Concat(chosen, i) ==
    IF i > Min(MaxSentences, Len(Sentences)) THEN <<>>
    ELSE (IF i \in chosen THEN Sentences[i] ELSE <<>>) \o Concat(chosen, i + 1)

Docs ==
    {[title |-> t, innerText |-> Concat(chosen, 1)] :
        t \in Titles, chosen \in SUBSET (1..Min(MaxSentences, Len(Sentences)))}

InitClassify ==
    /\ HandlerInit
    /\ dir = FALSE
    /\ doc \in Docs
    /\ category = NoCategory
    /\ styles = <<>>
    /\ colors = NoColors
    /\ fonts = <<>>
    /\ fontTypes = NoFontTypes
    /\ pending = {}
    /\ handled = <<>>

\* const category = await extractCategory(page), the evaluation succeeding.
ExtractCategory ==
    /\ impl \in {"part_000", "part_001"}
    /\ ~category.done
    /\ category' = [done |-> TRUE,
                    label |-> IF impl = "part_000" THEN extractCategory_000(doc)
                              ELSE extractCategory_001(doc),
                    categories |-> <<>>]
    /\ UNCHANGED <<hvars, doc, styles, colors, fonts, fontTypes, queue>>

\* const intelligence = await extractWebsiteIntelligence(page)
ExtractWebsiteIntelligence ==
    /\ impl = "index"
    /\ ~category.done
    /\ LET r == extractWebsiteIntelligence(doc)
       IN  category' = [done |-> TRUE, label |-> r.websiteType,
                        categories |-> r.categories]
    /\ UNCHANGED <<hvars, doc, styles, colors, fonts, fontTypes, queue>>

NextClassify ==
    \/ ExtractCategory
    \/ ExtractWebsiteIntelligence

SpecClassify == InitClassify /\ [][NextClassify]_vars

(* --------------------- claims on the classification -------------------- *)

RulesOf(i) ==
    CASE i = "index" -> CATEGORY_RULES
      [] i = "part_000" -> rules_000
      [] i = "part_001" -> rules_001

TextOf(i) ==
    CASE i = "index" -> PageText(doc, TextLimitIndex)
      [] i = "part_000" -> PageText(doc, TextLimit000)
      [] i = "part_001" -> PageText(doc, TextLimit001)

\* Score of every rule of the running program on the document's text.
Scores ==
    [i \in 1..Len(RulesOf(impl)) |-> Score(TextOf(impl), RulesOf(impl)[i].keywords)]

MaxScore == CHOOSE m \in {Scores[i] : i \in DOMAIN Scores} : \A i \in DOMAIN Scores : Scores[i] <= m

FirstAtMax == CHOOSE i \in DOMAIN Scores : Scores[i] = MaxScore /\ \A j \in 1..(i - 1) : Scores[j] < MaxScore

\* C8: in each of the three programs the label returned is that of the
\* first rule in table order whose score is the maximum, and "General
\* Website" when no rule scores above zero.
C8_TopLabelIsFirstMaximum ==
    category.done =>
        category.label = IF MaxScore = 0 THEN "General Website"
                         ELSE RulesOf(impl)[FirstAtMax].label

\* C8 witness: two rules tie at the maximum and the earlier one is returned.
C8_Witness ==
    /\ category.done
    /\ MaxScore > 0
    /\ \E j \in DOMAIN Scores : j > FirstAtMax /\ Scores[j] = MaxScore
    /\ category.label = RulesOf(impl)[FirstAtMax].label

Nonzero == {i \in DOMAIN Scores : Scores[i] > 0}

IndexOf(label) == CHOOSE i \in 1..Len(CATEGORY_RULES) : CATEGORY_RULES[i].label = label

\* Rule i ranks before rule j: higher score, table order among equal scores.
Before(i, j) == Scores[i] > Scores[j] \/ (Scores[i] = Scores[j] /\ i < j)

\* cats is the first n labels of the ranking of the rules that scored.
RankedPrefix(cats, n) ==
    /\ Len(cats) = n
    /\ \A k \in 1..Len(cats) :
          /\ \E i \in Nonzero : CATEGORY_RULES[i].label = cats[k]
          /\ \A l \in (k + 1)..Len(cats) : Before(IndexOf(cats[k]), IndexOf(cats[l]))
          /\ \A j \in Nonzero \ {IndexOf(cats[l]) : l \in 1..Len(cats)} :
                Before(IndexOf(cats[k]), j)

TypeIsTop ==
    category.label = IF Len(category.categories) = 0 THEN "General Website"
                     ELSE category.categories[1]

\* C9 as stated: categories is the ranked list of all rules with a nonzero
\* score, and websiteType is its first element or the generic label.
C9_CategoriesAllRanked ==
    category.done /\ impl = "index" =>
        RankedPrefix(category.categories, Cardinality(Nonzero)) /\ TypeIsTop

\* C9 as amended: categories is the first six (at most) of that ranked
\* list, and websiteType is its first element or the generic label.
C9_CategoriesTopSixRanked ==
    category.done /\ impl = "index" =>
        RankedPrefix(category.categories, Min(MaxCategories, Cardinality(Nonzero)))
        /\ TypeIsTop

\* C9 witness: more than six rules scored, with ties, and six are returned.
C9_Witness ==
    /\ category.done
    /\ impl = "index"
    /\ Cardinality(Nonzero) > MaxCategories
    /\ Len(category.categories) = MaxCategories
    /\ \E i, j \in Nonzero : i # j /\ Scores[i] = Scores[j]
    /\ \E i, j \in Nonzero : Scores[i] # Scores[j]

(* ========================== color extraction =========================== *)

(* Computed color strings as the browser serializes them.                  *)

\* rgb(0, 0, 0)
Color1 == << "r", "g", "b", "(", "0", ",", " ", "0", ",", " ", "0", ")" >>

\* rgb(255, 87, 51)
Color2 == << "r", "g", "b", "(", "2", "5", "5", ",", " ", "8", "7", ",", " ", "5", "1", ")" >>

\* rgba(0, 0, 0, 0)
Color3 == << "r", "g", "b", "a", "(", "0", ",", " ", "0", ",", " ", "0", ",", " ", "0", ")" >>

\* rgba(255, 0, 0, 0.5)
Color4 == << "r", "g", "b", "a", "(", "2", "5", "5", ",", " ", "0", ",", " ", "0", ",", " ", "0", ".", "5", ")" >>

\* color(srgb 1 0 0)
Color5 == << "c", "o", "l", "o", "r", "(", "s", "r", "g", "b", " ", "1", " ", "0", " ", "0", ")" >>

Transparent == << "r", "g", "b", "a", "(", "0", ",", " ", "0", ",", " ", "0", ",", " ", "0", ")" >>
RgbPrefix == << "r", "g", "b" >>

HexDigits == << "0", "1", "2", "3", "4", "5", "6", "7", "8", "9",
                "a", "b", "c", "d", "e", "f" >>

IsDigit(c) == \E i \in 1..10 : HexDigits[i] = c

DigitValue(c) == (CHOOSE i \in 1..10 : HexDigits[i] = c) - 1

startsWith(s, prefix) == Len(s) >= Len(prefix) /\ SubSeq(s, 1, Len(prefix)) = prefix

\* rgb.match(/\d+/g): the maximal runs of digits, left to right (no match
\* is the empty list here, null in the source).
RECURSIVE matchDigits(_, _, _, _)
matchDigits(s, i, run, found) ==
    LET closed == IF Len(run) > 0 THEN Append(found, run) ELSE found
    IN  IF i > Len(s) THEN closed
        ELSE IF IsDigit(s[i]) THEN matchDigits(s, i + 1, Append(run, s[i]), found)
        ELSE matchDigits(s, i + 1, <<>>, closed)

match(s) == matchDigits(s, 1, <<>>, <<>>)

\* Number(x) of a run of decimal digits.
RECURSIVE Number(_)
Number(x) ==
    IF Len(x) = 0 THEN 0
    ELSE 10 * Number(SubSeq(x, 1, Len(x) - 1)) + DigitValue(x[Len(x)])

\* n.toString(16)
RECURSIVE toString16(_)
toString16(n) ==
    IF n < 16 THEN <<HexDigits[n + 1]>>
    ELSE toString16(n \div 16) \o <<HexDigits[(n % 16) + 1]>>

padStart(s, n, c) == [i \in 1..(n - Len(s)) |-> c] \o s

RECURSIVE join(_)
join(parts) == IF Len(parts) = 0 THEN <<>> ELSE parts[1] \o join(Tail(parts))

HexByte(n) == padStart(toString16(n), 2, "0")

\* "#" + m.map((x) => Number(x).toString(16).padStart(2, "0")).join("")
hexOfAllNumbers(rgb) ==
    LET m == match(rgb)
    IN  <<"#">> \o join([i \in 1..Len(m) |-> HexByte(Number(m[i]))])

\* rgbToHex of part_000: null (the empty string here) without a match.
rgbToHex(rgb) ==
    LET m == match(rgb)
    IN  IF Len(m) = 0 THEN <<>>
        ELSE <<"#">> \o HexByte(Number(m[1])) \o HexByte(Number(m[2]))
                     \o HexByte(Number(m[3]))

\* Set.prototype.add on a set kept in insertion order.
add(set, x) == IF \E i \in 1..Len(set) : set[i] = x THEN set ELSE Append(set, x)

ColorCapIndex == 25

ColorCap000 == 30

ColorCap001 == 20

MaxSampled == 1200

\* extractColors of src/index.js.
RECURSIVE collectIndex(_, _, _)
collectIndex(els, i, set) ==
    IF i > Len(els) THEN set
    ELSE LET s == els[i]
             a == IF startsWith(s.color, RgbPrefix) THEN add(set, s.color) ELSE set
             b == IF startsWith(s.backgroundColor, RgbPrefix)
                  THEN add(a, s.backgroundColor) ELSE a
         IN  collectIndex(els, i + 1, b)

extractColors_index(els) ==
    LET kept == slice(collectIndex(els, 1, <<>>), 0, ColorCapIndex)
    IN  [i \in 1..Len(kept) |-> hexOfAllNumbers(kept[i])]

\* extractCSSColors of part_000 and the conversion at its call site.
Kept000(c) == Len(c) > 0 /\ c # Transparent /\ startsWith(c, RgbPrefix)

RECURSIVE collect000(_, _, _)
collect000(els, i, set) ==
    IF i > Len(els) THEN set
    ELSE LET s == els[i]
             a == IF Kept000(s.color) THEN add(set, s.color) ELSE set
             b == IF Kept000(s.backgroundColor) THEN add(a, s.backgroundColor) ELSE a
         IN  collect000(els, i + 1, b)

extractCSSColors(els) == collect000(slice(els, 0, MaxSampled), 1, <<>>)

extractColors_000(els) ==
    LET rawColors == extractCSSColors(els)
        mapped == [i \in 1..Len(rawColors) |-> rgbToHex(rawColors[i])]
    IN  slice(SelectSeq(mapped, LAMBDA h : Len(h) > 0), 0, ColorCap000)

\* The colors evaluation of part_001.
RECURSIVE collect001(_, _, _)
collect001(els, i, set) ==
    IF i > Len(els) THEN set
    ELSE LET s == els[i]
             a == IF Len(s.color) > 0 THEN add(set, s.color) ELSE set
             b == IF Len(s.backgroundColor) > 0 THEN add(a, s.backgroundColor) ELSE a
         IN  collect001(els, i + 1, b)

extractColors_001(els) ==
    LET kept == slice(SelectSeq(collect001(els, 1, <<>>),
                                LAMBDA c : startsWith(c, RgbPrefix)),
                      0, ColorCap001)
    IN  [i \in 1..Len(kept) |-> hexOfAllNumbers(kept[i])]

(* The computed styles of a page's elements.                               *)

ComputedStyles ==
    {[color |-> c, backgroundColor |-> b] :
        c \in {Color1, Color2, Color4, Color5}, b \in {Color3, Color2, Color4}}

InitColors ==
    /\ HandlerInit
    /\ dir = FALSE
    /\ doc = NoDoc
    /\ category = NoCategory
    /\ styles \in SeqsUpTo(ComputedStyles, MaxElements)
    /\ colors = NoColors
    /\ fonts = <<>>
    /\ fontTypes = NoFontTypes
    /\ pending = {}
    /\ handled = <<>>

\* The color extraction of the running program, its evaluation succeeding.
ExtractColors ==
    /\ ~colors.done
    /\ colors' = [done |-> TRUE,
                  hex |-> CASE impl = "index" -> extractColors_index(styles)
                            [] impl = "part_000" -> extractColors_000(styles)
                            [] impl = "part_001" -> extractColors_001(styles)]
    /\ UNCHANGED <<hvars, doc, category, styles, fonts, fontTypes, queue>>

NextColors == ExtractColors

SpecColors == InitColors /\ [][NextColors]_vars

(* ------------------------ claims on the colors ------------------------- *)

ColorCap(i) ==
    CASE i = "index" -> ColorCapIndex
      [] i = "part_000" -> ColorCap000
      [] i = "part_001" -> ColorCap001

IsHex6(h) ==
    /\ Len(h) = 7
    /\ h[1] = "#"
    /\ \A i \in 2..7 : \E d \in 1..16 : HexDigits[d] = h[i]

\* The rgb-prefixed strings among the page's computed colors.
RgbInputs ==
    {c \in {styles[i].color : i \in 1..Len(styles)}
           \cup {styles[i].backgroundColor : i \in 1..Len(styles)} :
        startsWith(c, RgbPrefix)}

\* '#' and the two-digit hexadecimal forms of the first three numbers.
Hex6Of(c) ==
    LET m == match(c)
        byte(n) == <<HexDigits[(n \div 16) + 1], HexDigits[(n % 16) + 1]>>
    IN  <<"#">> \o byte(Number(m[1])) \o byte(Number(m[2])) \o byte(Number(m[3]))

\* C10: every element of the colors output is '#' and exactly six
\* hexadecimal digits, those of the r, g, b components of one of the page's
\* rgb/rgba colors, and the output is no longer than the program's cap.
C10_ColorsAreHex6 ==
    colors.done =>
        /\ Len(colors.hex) <= ColorCap(impl)
        /\ \A k \in 1..Len(colors.hex) :
              /\ IsHex6(colors.hex[k])
              /\ \E c \in RgbInputs : colors.hex[k] = Hex6Of(c)

(* ======================================================================= *)
(* Font classification of part_000                                         *)
(* ======================================================================= *)

MaxFonts == 2

Mono == << "m", "o", "n", "o" >>

Serif == << "s", "e", "r", "i", "f" >>

Sans == << "s", "a", "n", "s" >>

\* Variant: the test on "sans" left out of the second branch.
fontClassWithoutSans(f) ==
    LET name == toLowerCase(f)
    IN  IF includes(name, Mono) THEN "monospace"
        ELSE IF includes(name, Serif) THEN "serif"
        ELSE "sans-serif"

\* The callback of fonts.forEach: the class added to types for the name f.
fontClass(f) ==
    LET name == toLowerCase(f)
    IN  IF includes(name, Mono) THEN "monospace"
        ELSE IF includes(name, Serif) /\ ~includes(name, Sans) THEN "serif"
        ELSE "sans-serif"

\* fonts.forEach(...) from the i-th name on, types being the Set so far.
RECURSIVE forEachFont(_, _, _)
forEachFont(fs, i, types) ==
    IF i > Len(fs) THEN types
    ELSE forEachFont(fs, i + 1, add(types, fontClass(fs[i])))

\* Array.from(types) keeps the insertion order of the Set.
classifyFontTypes(fs) == forEachFont(fs, 1, <<>>)

\* Font family names as extractFonts returns them: split at commas, quotes
\* stripped, trimmed.
FontNames ==
    { << "R", "o", "b", "o", "t", "o", " ", "M", "o", "n", "o" >>,
      << "m", "o", "n", "o", "s", "p", "a", "c", "e" >>,
      << "P", "T", " ", "S", "e", "r", "i", "f" >>,
      << "s", "e", "r", "i", "f" >>,
      << "s", "a", "n", "s", "-", "s", "e", "r", "i", "f" >>,
      << "A", "r", "i", "a", "l" >>,
      << "D", "r", "o", "i", "d", " ", "S", "a", "n", "s", " ", "M", "o", "n", "o" >>,
      << "S", "a", "n", "s", " ", "s", "e", "r", "i", "f" >> }

InitFonts ==
    /\ HandlerInit
    /\ impl = "part_000"
    /\ dir = FALSE
    /\ doc = NoDoc
    /\ category = NoCategory
    /\ styles = <<>>
    /\ colors = NoColors
    /\ fonts \in SeqsUpTo(FontNames, MaxFonts)
    /\ fontTypes = NoFontTypes
    /\ pending = {}
    /\ handled = <<>>

\* const fontTypes = classifyFontTypes(fonts)
ClassifyFontTypes ==
    /\ impl = "part_000"
    /\ ~fontTypes.done
    /\ fontTypes' = [done |-> TRUE, types |-> classifyFontTypes(fonts)]
    /\ UNCHANGED <<hvars, doc, category, styles, colors, fonts, queue>>

NextFonts == ClassifyFontTypes

SpecFonts == InitFonts /\ [][NextFonts]_vars

(* ---------------------- claims on the font classes --------------------- *)

FontClasses == {"monospace", "serif", "sans-serif"}

\* k, written in lower case, occurs in f letter for letter.
Contains(f, k) ==
    \E i \in 0..(Len(f) - Len(k)) : \A j \in 1..Len(k) : f[i + j] = k[j]

\* k, written in lower case, occurs in f up to the case of f's letters.
ContainsIgnoringCase(f, k) ==
    \E i \in 0..(Len(f) - Len(k)) :
        \A j \in 1..Len(k) :
            \/ f[i + j] = k[j]
            \/ f[i + j] \in DOMAIN LowerOf /\ LowerOf[f[i + j]] = k[j]

ClassOfLiteral(f) ==
    IF Contains(f, Mono) THEN "monospace"
    ELSE IF Contains(f, Serif) /\ ~Contains(f, Sans) THEN "serif"
    ELSE "sans-serif"

ClassIgnoringCase(f) ==
    IF ContainsIgnoringCase(f, Mono) THEN "monospace"
    ELSE IF ContainsIgnoringCase(f, Serif) /\ ~ContainsIgnoringCase(f, Sans)
         THEN "serif"
    ELSE "sans-serif"

NoDuplicates(s) == \A i, j \in 1..Len(s) : s[i] = s[j] => i = j

Elements(s) == {s[i] : i \in 1..Len(s)}

\* C11: every font name has exactly one class among monospace, serif and
\* sans-serif: monospace when the name contains "mono", otherwise serif when
\* it contains "serif" and not "sans", otherwise sans-serif; fontTypes is the
\* set of the classes of the input names, each class once.
C11_ClassesByLiteralSubstring ==
    fontTypes.done =>
        /\ Elements(fontTypes.types) \subseteq FontClasses
        /\ NoDuplicates(fontTypes.types)
        /\ Elements(fontTypes.types)
              = {ClassOfLiteral(fonts[k]) : k \in 1..Len(fonts)}

\* C11, amended: the three substrings are looked for in the lower-cased
\* name, so that a name contains "mono", "serif" or "sans" whatever the case
\* of its letters ("Roboto Mono" is monospace, "Sans serif" is sans-serif);
\* with that, fontTypes is the set of the classes of the input names, each
\* class once.
C11_ClassesIgnoringCase ==
    fontTypes.done =>
        /\ Elements(fontTypes.types) \subseteq FontClasses
        /\ NoDuplicates(fontTypes.types)
        /\ Elements(fontTypes.types)
              = {ClassIgnoringCase(fonts[k]) : k \in 1..Len(fonts)}

\* Two names of one class, one of them in capitals, classified once.
C11_Witness ==
    /\ fontTypes.done
    /\ Len(fonts) = 2
    /\ fonts[1] # fonts[2]
    /\ Len(fontTypes.types) = 1
    /\ \E k \in 1..2 : ClassOfLiteral(fonts[k]) # ClassIgnoringCase(fonts[k])

(* ======================================================================= *)
(* Concurrent POST /submit requests                                        *)
(* ======================================================================= *)

MaxRequests == 2

\* Bodies of the concurrent clients: those of SubmitBodies and a second
\* complete one.
RapidBodies == SubmitBodies \cup {[url |-> "https://b.example/x", websiteName |-> "B"]}

\* What an earlier run of the server left in submissions.json.
OldLog == Block([url |-> "https://old.example", websiteName |-> "Old"])

InitSubmit ==
    /\ impl \in {i \in Impls : HasSubmit(i)}
    /\ route = "none"
    /\ body = "none"
    /\ pc = "idle"
    /\ ip = 0
    /\ urlIx = 0
    /\ id = 0
    /\ uuid = 0
    /\ browser = "none"
    /\ pages = 0
    /\ trace = <<>>
    /\ warnings = <<>>
    /\ data = NoData
    /\ results = <<>>
    /\ response = NoResponse
    /\ dir = FALSE
    /\ files = {}
    /\ log \in {<<>>, OldLog}
    /\ lastSubmit = [n |-> 0, body |-> "none", status |-> 0]
    /\ doc = NoDoc
    /\ category = NoCategory
    /\ styles = <<>>
    /\ colors = NoColors
    /\ fonts = <<>>
    /\ fontTypes = NoFontTypes
    /\ pending = {}
    /\ handled = <<>>

\* Variant: handlers that yield between their writes, so that the event loop
\* starts another handler while one is running.
YieldingHandlers == TRUE

\* No handler is between its first statement and its response: a handler
\* without await runs to completion before the event loop takes the next
\* request.
EventLoopFree == \A k \in 1..Len(handled) : handled[k].status # 0

\* A client's request reaches the server.
ReceiveSubmit ==
    /\ Cardinality(pending) + Len(handled) < MaxRequests
    /\ \E b \in RapidBodies :
          pending' = pending
                       \cup {[id |-> Cardinality(pending) + Len(handled) + 1,
                              body |-> b]}
    /\ UNCHANGED <<hvars, pure, handled>>

\* The event loop calls the handler for a request: the guard answers 400 at
\* once, otherwise appendFileSync starts on the block. waiting is the number
\* of other requests received by then.
StartSubmit ==
    /\ EventLoopFree
    /\ \E r \in pending :
          /\ pending' = pending \ {r}
          /\ handled' = Append(handled,
                 [id |-> r.id, body |-> r.body,
                  waiting |-> Cardinality(pending) - 1,
                  status |-> IF SubmitRejects(r.body) THEN 400 ELSE 0,
                  text |-> IF SubmitRejects(r.body) THEN <<>> ELSE Block(r.body)])
    /\ UNCHANGED <<hvars, pure>>

\* appendFileSync writes the next piece of its text at the end of the file.
WriteSync ==
    /\ \E k \in 1..Len(handled) :
          /\ handled[k].status = 0
          /\ handled[k].text # <<>>
          /\ log' = appendFileSync(log, <<Head(handled[k].text)>>)
          /\ handled' = [handled EXCEPT ![k].text = Tail(@)]
    /\ UNCHANGED <<impl, route, body, pc, ip, urlIx, id, uuid, browser, pages,
                   trace, warnings, data, results, response, dir, files,
                   lastSubmit, pure, pending>>

\* res.json({ message: "Website submitted successfully" })
RespondSubmit ==
    /\ \E k \in 1..Len(handled) :
          /\ handled[k].status = 0
          /\ handled[k].text = <<>>
          /\ handled' = [handled EXCEPT ![k].status = 200]
    /\ UNCHANGED <<hvars, pure, pending>>

NextSubmit ==
    \/ ReceiveSubmit
    \/ StartSubmit
    \/ WriteSync
    \/ RespondSubmit

SpecSubmit == InitSubmit /\ [][NextSubmit]_vars

(* ------------------------ claims on the log ---------------------------- *)

Punctuation == {"{", "}", ",\n"}

\* The objects of a text made of complete blocks, each an object with the
\* two properties followed by ",\n"; ok is FALSE for any other text.
RECURSIVE ParseBlocks(_)
ParseBlocks(file) ==
    IF file = <<>> THEN [ok |-> TRUE, blocks |-> <<>>]
    ELSE IF /\ Len(file) >= 7
            /\ file[1] = "{" /\ file[2] = "url" /\ file[3] \notin Punctuation
            /\ file[4] = "websiteName" /\ file[5] \notin Punctuation
            /\ file[6] = "}" /\ file[7] = ",\n"
         THEN LET rest == ParseBlocks(SubSeq(file, 8, Len(file)))
              IN  [ok |-> rest.ok,
                   blocks |-> <<[url |-> file[3], websiteName |-> file[5]]>>
                                \o rest.blocks]
         ELSE [ok |-> FALSE, blocks |-> <<>>]

\* The bodies of the requests carrying url and websiteName among the first
\* k handled ones, in the order their handlers started.
RECURSIVE Accepted(_)
Accepted(k) ==
    IF k = 0 THEN <<>>
    ELSE Accepted(k - 1)
           \o (IF SubmitRejects(handled[k].body) THEN <<>> ELSE <<handled[k].body>>)

AllAnswered == pending = {} /\ \A k \in 1..Len(handled) : handled[k].status # 0

\* C12: whatever the interleaving of concurrent POST /submit requests, each
\* request carrying url and websiteName is answered 200 and adds exactly one
\* complete block to the log: once all are answered the log is what it was
\* before followed by one parseable block per such request, none lost,
\* repeated or mixed with another's; and no step changes what the log
\* already holds.
C12_OneBlockPerSubmit ==
    /\ [](AllAnswered =>
            /\ \A k \in 1..Len(handled) :
                  handled[k].status
                     = (IF SubmitRejects(handled[k].body) THEN 400 ELSE 200)
            /\ \E old \in {<<>>, OldLog} :
                  /\ SubSeq(log, 1, Len(old)) = old
                  /\ LET added == ParseBlocks(SubSeq(log, Len(old) + 1, Len(log)))
                     IN  added.ok /\ added.blocks = Accepted(Len(handled)))
    /\ [][/\ Len(log') >= Len(log)
          /\ SubSeq(log', 1, Len(log)) = log]_vars

\* Two complete requests with different bodies, the second received before
\* the first was handled, both answered, after earlier content.
C12_Witness ==
    /\ AllAnswered
    /\ Len(handled) = 2
    /\ handled[1].status = 200 /\ handled[2].status = 200
    /\ handled[1].body # handled[2].body
    /\ handled[1].waiting = 1
    /\ SubSeq(log, 1, Len(OldLog)) = OldLog
    /\ Len(log) = 3 * Len(OldLog)

(* ======================================================================= *)
(* Pages of a bulk batch                                                   *)
(* ======================================================================= *)

\* C13: during a POST /analyze/bulk batch the shared browser has at most one
\* page open, and none when analyzeSingleWebsite is about to open the page
\* of the next URL: the page of the previous URL has been closed, whether
\* its analysis returned or threw.
C13_OnePageAtATime ==
    route = "bulk" /\ browser = "open" =>
        /\ pages <= 1
        /\ (pc = "run" /\ ip = 1 => pages = 0)

====
